---- MODULE Spec2Model ----
(***************************************************************************)
(* CommandBus / QueryBus of src/core/cqrs/bus.ts, driving the Unit of Work *)
(* port of src/adapters/mysql/unit-of-work.interface.ts.                   *)
(*                                                                         *)
(* Every execute call is an async function: it runs synchronously up to    *)
(* its next await and is resumed when the awaited promise settles.  One    *)
(* action models one such synchronous segment.  Several calls may be in    *)
(* flight at once; their segments interleave.                              *)
(***************************************************************************)
EXTENDS Naturals, Sequences, FiniteSets, TLC

\* Number of execute calls issued in one behaviour.
MaxCalls == 2

Calls == 1..MaxCalls

\* Request classes (constructor identities) and the class names they carry.
RequestTypes == {1, 2, 3}

\* execute<TCommand extends ICommand> takes command classes, execute<TQuery
\* extends IQuery> query classes.
CommandTypes == {1, 3}
QueryTypes == {2}

ConstructorName(t) ==
    CASE t = 1 -> "CreateUser"
      [] t = 2 -> "GetUser"
      [] OTHER -> "DeleteUser"

\* Values a handler may return.
Values == {42, 7}

NoToken == "undefined"

(***************************************************************************)
(* Thrown values.  HttpError carries code/title/detail; a plain Error      *)
(* carries a message; anything else may be thrown as well.  The buses test *)
(* instanceof HttpError first and never read the message of an HttpError.  *)
(***************************************************************************)
HttpError(code, title, detail) ==
    [cls |-> "HttpError", code |-> code, title |-> title, detail |-> detail, message |-> title]

PlainError(message) ==
    [cls |-> "Error", code |-> 0, title |-> "", detail |-> "", message |-> message]

NonError == [cls |-> "NonError", code |-> 0, title |-> "", detail |-> "", message |-> ""]

NoError == [cls |-> "None", code |-> 0, title |-> "", detail |-> "", message |-> ""]

NotFound404 == HttpError(404, "Not Found", "user missing")

DbDown == PlainError("db down")

RollbackLost == PlainError("rollback failed")

\* What a handler or the handler container may throw.
HandlerErrors == {NotFound404, DbDown, NonError}

\* What the Unit of Work operations may reject with.
BeginErrors == {PlainError("no connection")}
CommitErrors == {HttpError(409, "Conflict", "commit rejected"), PlainError("commit failed")}
RollbackErrors == {RollbackLost}

(***************************************************************************)
(* Result                                                                  *)
(***************************************************************************)
Success(v) == [success |-> TRUE, value |-> v]

Failure(e) == [success |-> FALSE, error |-> e]

(***************************************************************************)
(* Handler registry                                                        *)
(***************************************************************************)
\* new Map(mappings): entries are set in order, a later pair for the same
\* key replaces the earlier one.
RECURSIVE MapFromEntries(_, _)
MapFromEntries(m, mappings) ==
    IF mappings = << >> THEN m
    ELSE LET k == Head(mappings)[1]
             v == Head(mappings)[2]
         IN  MapFromEntries([x \in (DOMAIN m) \cup {k} |-> IF x = k THEN v ELSE m[x]],
                            Tail(mappings))

\* A map in which the first pair for a key wins.
RECURSIVE MapKeepingFirst(_, _)
MapKeepingFirst(m, mappings) ==
    IF mappings = << >> THEN m
    ELSE LET k == Head(mappings)[1]
             v == Head(mappings)[2]
         IN  MapKeepingFirst([x \in (DOMAIN m) \cup {k} |-> IF x \in DOMAIN m THEN m[x] ELSE v],
                             Tail(mappings))

createHandlerMapFirstWins(mappings) == MapKeepingFirst(<< >>, mappings)

createHandlerMap(mappings) == MapFromEntries(<< >>, mappings)

\* A lookup that finds an entry whenever the key is present, but not the
\* key's own.
MapGetAnyEntry(m, k) == IF k \in DOMAIN m THEN m[CHOOSE x \in DOMAIN m : TRUE] ELSE NoToken

\* Map.prototype.get
MapGet(m, k) == IF k \in DOMAIN m THEN m[k] ELSE NoToken

\* Handler tokens.
Tokens == {"CreateUserHandlerA", "CreateUserHandler", "GetUserHandler"}

\* Longest bootstrap sequence considered.
MaxMappings == 3

\* Every ordered sequence of (class, token) pairs up to that length.
AllMappings == UNION {[1..n -> RequestTypes \X Tokens] : n \in 0..MaxMappings}

\* The mappings handed to createHandlerMap at bootstrap; the empty one is the
\* placeholder map of the global bus instances.
BootstrapInputs ==
    { << >>,
      << <<1, "CreateUserHandlerA">>, <<2, "GetUserHandler">>, <<1, "CreateUserHandler">> >> }

(***************************************************************************)
(* Error classification of the catch blocks                                *)
(***************************************************************************)
UnknownMessage(bus) ==
    IF bus = "command" THEN "An unknown command execution error occurred."
    ELSE "An unknown query execution error occurred."

\* A catch block that hands the caught value to Result.Failure as it is.
ClassifyRawError(bus, e) == Failure(e)

Classify(bus, e) ==
    IF e.cls = "HttpError" THEN Failure(e)
    ELSE Failure(HttpError(500, "Internal Server Error",
                           IF e.cls = "Error" THEN e.message ELSE UnknownMessage(bus)))

\* The query bus reporting with the command bus's wording.
HandlerNotFoundCommandWording(bus, t) ==
    Failure(HttpError(500, "Internal Server Error",
                      "No command handler found for " \o ConstructorName(t)))

HandlerNotFound(bus, t) ==
    Failure(HttpError(500, "Internal Server Error",
                      (IF bus = "command" THEN "No command handler found for "
                       ELSE "No query handler found for ") \o ConstructorName(t)))

(***************************************************************************)
(* State                                                                   *)
(***************************************************************************)
VARIABLES
    handlerMap,  \* the handlerMap field of the two buses
    req,         \* per call: the bus it was made on and the request's class
    pc,          \* per call: the await the call is suspended at
    token,       \* per call: handlerToken
    caught,      \* per call: the error bound by the catch block
    value,       \* per call: << >>, or <<v>> once handle has returned v
    outcome,     \* per call: how the promise returned by execute settled
    log,         \* per call: the calls made on collaborators and how they settled
    uowState,    \* per Unit of Work instance: Idle, Active or Finalized
    pending,     \* per call: the open transaction holds uncommitted writes
    persisted,   \* the calls whose handler's writes are durable
    uow,         \* per call: the Unit of Work instance it acquired, 0 before
    handled,     \* per call: the request passed to handle
    mappings,    \* the (class, token) pairs handed to createHandlerMap
    booted       \* the buses have been constructed with the bootstrap map

vars == <<handlerMap, req, pc, token, caught, value, outcome, log, uowState, pending, persisted,
          uow, handled, mappings, booted>>

NoRequest == [bus |-> "none", type |-> 0]

NoOutcome == [kind |-> "pending"]

Returned(r) == [kind |-> "returned", result |-> r]

Rejected(e) == [kind |-> "rejected", error |-> e]

\* One entry of a call's log: operation, phase ("call", "ok", "fail"), the
\* state of the call's Unit of Work at that moment, and the handler token.
Ev(op, ph, st, arg) == [op |-> op, ph |-> ph, st |-> st, arg |-> arg]

\* No execute call has been made yet.
InitCalls ==
    /\ req = [c \in Calls |-> NoRequest]
    /\ pc = [c \in Calls |-> "idle"]
    /\ token = [c \in Calls |-> NoToken]
    /\ caught = [c \in Calls |-> NoError]
    /\ value = [c \in Calls |-> << >>]
    /\ outcome = [c \in Calls |-> NoOutcome]
    /\ log = [c \in Calls |-> << >>]
    /\ uowState = [u \in Calls |-> "Idle"]
    /\ pending = [c \in Calls |-> FALSE]
    /\ persisted = {}
    /\ uow = [c \in Calls |-> 0]
    /\ handled = [c \in Calls |-> NoRequest]

\* The buses as constructed at bootstrap.
Init ==
    /\ mappings \in BootstrapInputs
    /\ handlerMap = [command |-> createHandlerMap(mappings),
                     query |-> createHandlerMap(mappings)]
    /\ booted = TRUE
    /\ InitCalls

(***************************************************************************)
(* Unit of Work: Idle -> Active -> Finalized.  Only the port is part of    *)
(* the sources; the transitions follow its documented contract.            *)
(***************************************************************************)
\* State of a Unit of Work after operation op, called in state st, resolves.
UowResolved(op, st) ==
    CASE op = "beginTransaction" -> "Active"
      [] op = "commit" -> "Finalized"
      [] OTHER -> IF st = "Active" THEN "Finalized" ELSE st

\* The durable writes after operation op of call c resolves: only commit
\* makes the transaction's writes durable.
StoreResolved(op, c, pend, pers) ==
    IF op = "commit" /\ pend THEN pers \cup {c} ELSE pers

\* Container.get<IUnitOfWork>(TOKENS.UnitOfWork): the container is bound to
\* hand every call an instance of its own, and not to throw for this token.
ContainerGetUnitOfWork(c) == c

\* Log entries of a query carry no Unit of Work state.
NoUow == "none"

\* Where a rejected commit may leave the transaction.
UowAfterFailedCommit == {"Active", "Finalized"}

Append2(l, a, b) == Append(Append(l, a), b)

Append3(l, a, b, d) == Append(Append(Append(l, a), b), d)

(***************************************************************************)
(* CommandBus.execute                                                      *)
(***************************************************************************)
\* The Unit of Work acquired before the token is looked up.
CommandNotFoundAcquiresFirst(c, t) ==
    /\ pc[c] = "idle"
    /\ MapGet(handlerMap.command, t) = NoToken
    /\ req' = [req EXCEPT ![c] = [bus |-> "command", type |-> t]]
    /\ uow' = [uow EXCEPT ![c] = ContainerGetUnitOfWork(c)]
    /\ outcome' = [outcome EXCEPT ![c] = Returned(HandlerNotFound("command", t))]
    /\ pc' = [pc EXCEPT ![c] = "done"]
    /\ UNCHANGED <<mappings, booted, handlerMap, token, caught, value, log, uowState, pending,
                   persisted, handled>>

\* lines 36-39: no handler token for the command's class.
CommandNotFound(c, t) ==
    /\ pc[c] = "idle"
    /\ MapGet(handlerMap.command, t) = NoToken
    /\ req' = [req EXCEPT ![c] = [bus |-> "command", type |-> t]]
    /\ outcome' = [outcome EXCEPT ![c] = Returned(HandlerNotFound("command", t))]
    /\ pc' = [pc EXCEPT ![c] = "done"]
    /\ UNCHANGED <<mappings, booted, handlerMap, token, caught, value, log, uowState,
                   pending, persisted, uow, handled>>

\* A lookup that takes the entry out of the map (get-and-delete).
CommandBeginConsumesEntry(c, t) ==
    /\ pc[c] = "idle"
    /\ MapGet(handlerMap.command, t) # NoToken
    /\ handlerMap' = [handlerMap EXCEPT
                        !.command = [x \in (DOMAIN handlerMap.command) \ {t} |->
                                       handlerMap.command[x]]]
    /\ req' = [req EXCEPT ![c] = [bus |-> "command", type |-> t]]
    /\ token' = [token EXCEPT ![c] = MapGet(handlerMap.command, t)]
    /\ uow' = [uow EXCEPT ![c] = ContainerGetUnitOfWork(c)]
    /\ log' = [log EXCEPT ![c] =
                 Append(@, Ev("beginTransaction", "call",
                              uowState[ContainerGetUnitOfWork(c)], "uow"))]
    /\ pc' = [pc EXCEPT ![c] = "awaitBegin"]
    /\ UNCHANGED <<mappings, booted, caught, value, outcome, uowState, pending,
                   persisted, handled>>

\* beginTransaction called without await: the handler runs at once.
CommandBeginNoAwait(c, t) ==
    /\ pc[c] = "idle"
    /\ MapGet(handlerMap.command, t) # NoToken
    /\ req' = [req EXCEPT ![c] = [bus |-> "command", type |-> t]]
    /\ token' = [token EXCEPT ![c] = MapGet(handlerMap.command, t)]
    /\ uow' = [uow EXCEPT ![c] = ContainerGetUnitOfWork(c)]
    /\ handled' = [handled EXCEPT ![c] = [bus |-> "command", type |-> t]]
    /\ log' = [log EXCEPT ![c] =
                 Append3(Append(@, Ev("beginTransaction", "call",
                                      uowState[ContainerGetUnitOfWork(c)], "uow")),
                         Ev("resolve", "call", uowState[ContainerGetUnitOfWork(c)],
                            MapGet(handlerMap.command, t)),
                         Ev("resolve", "ok", uowState[ContainerGetUnitOfWork(c)],
                            MapGet(handlerMap.command, t)),
                         Ev("handle", "call", uowState[ContainerGetUnitOfWork(c)],
                            MapGet(handlerMap.command, t)))]
    /\ pc' = [pc EXCEPT ![c] = "awaitHandle"]
    /\ UNCHANGED <<mappings, booted, handlerMap, caught, value, outcome, uowState, pending,
                   persisted>>

\* A bus that acquires one Unit of Work when it is constructed and uses it
\* for every call.
CommandBeginSharedUow(c, t) ==
    /\ pc[c] = "idle"
    /\ MapGet(handlerMap.command, t) # NoToken
    /\ req' = [req EXCEPT ![c] = [bus |-> "command", type |-> t]]
    /\ token' = [token EXCEPT ![c] = MapGet(handlerMap.command, t)]
    /\ uow' = [uow EXCEPT ![c] = ContainerGetUnitOfWork(1)]
    /\ log' = [log EXCEPT ![c] =
                 Append(@, Ev("beginTransaction", "call",
                              uowState[ContainerGetUnitOfWork(1)], "uow"))]
    /\ pc' = [pc EXCEPT ![c] = "awaitBegin"]
    /\ UNCHANGED <<mappings, booted, handlerMap, caught, value, outcome, uowState, pending,
                   persisted, handled>>

\* lines 36-44: token found, Unit of Work acquired, beginTransaction called.
CommandBegin(c, t) ==
    /\ pc[c] = "idle"
    /\ MapGet(handlerMap.command, t) # NoToken
    /\ req' = [req EXCEPT ![c] = [bus |-> "command", type |-> t]]
    /\ token' = [token EXCEPT ![c] = MapGet(handlerMap.command, t)]
    /\ uow' = [uow EXCEPT ![c] = ContainerGetUnitOfWork(c)]
    /\ log' = [log EXCEPT ![c] =
                 Append(@, Ev("beginTransaction", "call",
                              uowState[ContainerGetUnitOfWork(c)], "uow"))]
    /\ pc' = [pc EXCEPT ![c] = "awaitBegin"]
    /\ UNCHANGED <<mappings, booted, handlerMap, caught, value, outcome, uowState, pending,
                   persisted, handled>>

\* The collaborator call a suspended execute is awaiting.
AwaitedOp(c) == log[c][Len(log[c])].op

\* A catch block that forgets to roll back.
EnterCatchNoRollback(c, e, l, st) ==
    /\ caught' = [caught EXCEPT ![c] = e]
    /\ log' = [log EXCEPT ![c] = Append(l, Ev("skip", "call", st, "uow"))]
    /\ pc' = [pc EXCEPT ![c] = "awaitRollback"]

\* A catch block that calls commit where rollback is meant.
EnterCatchCommits(c, e, l, st) ==
    /\ caught' = [caught EXCEPT ![c] = e]
    /\ log' = [log EXCEPT ![c] = Append(l, Ev("commit", "call", st, "uow"))]
    /\ pc' = [pc EXCEPT ![c] = "awaitRollback"]

\* lines 52-53: the catch block binds the error and calls rollback.
EnterCatch(c, e, l, st) ==
    /\ caught' = [caught EXCEPT ![c] = e]
    /\ log' = [log EXCEPT ![c] = Append(l, Ev("rollback", "call", st, "uow"))]
    /\ pc' = [pc EXCEPT ![c] = "awaitRollback"]

\* line 44 rejects.
BeginRejected(c, e) ==
    /\ pc[c] = "awaitBegin"
    /\ EnterCatch(c, e, Append(log[c], Ev("beginTransaction", "fail", uowState[uow[c]], "uow")),
                  uowState[uow[c]])
    /\ UNCHANGED <<mappings, booted, handlerMap, req, token, value, outcome, uowState,
                   pending, persisted, uow, handled>>

\* lines 44-47: beginTransaction resolves, the handler is resolved and handle called.
BeginResolved(c) ==
    /\ pc[c] = "awaitBegin"
    /\ uowState' = [uowState EXCEPT ![uow[c]] = UowResolved("beginTransaction", @)]
    /\ log' = [log EXCEPT ![c] =
                 Append3(Append(@, Ev("beginTransaction", "ok", UowResolved("beginTransaction", uowState[uow[c]]), "uow")),
                         Ev("resolve", "call", UowResolved("beginTransaction", uowState[uow[c]]), token[c]),
                         Ev("resolve", "ok", UowResolved("beginTransaction", uowState[uow[c]]), token[c]),
                         Ev("handle", "call", UowResolved("beginTransaction", uowState[uow[c]]), token[c]))]
    /\ pc' = [pc EXCEPT ![c] = "awaitHandle"]
    /\ handled' = [handled EXCEPT ![c] = req[c]]
    /\ UNCHANGED <<mappings, booted, handlerMap, req, token, caught, value, outcome, pending,
                   persisted, uow>>

\* lines 44-46, 52-53: beginTransaction resolves, Container.get throws.
BeginResolvedResolveThrows(c, e) ==
    /\ pc[c] = "awaitBegin"
    /\ uowState' = [uowState EXCEPT ![uow[c]] = UowResolved("beginTransaction", @)]
    /\ EnterCatch(c, e,
                  Append3(log[c], Ev("beginTransaction", "ok", UowResolved("beginTransaction", uowState[uow[c]]), "uow"),
                          Ev("resolve", "call", UowResolved("beginTransaction", uowState[uow[c]]), token[c]),
                          Ev("resolve", "fail", UowResolved("beginTransaction", uowState[uow[c]]), token[c])),
                  UowResolved("beginTransaction", uowState[uow[c]]))
    /\ UNCHANGED <<mappings, booted, handlerMap, req, token, value, outcome, pending,
                   persisted, uow, handled>>

\* commit called without await: Success is returned before commit settles.
HandleResolvedNoAwaitCommit(c, v) ==
    /\ pc[c] = "awaitHandle"
    /\ value' = [value EXCEPT ![c] = <<v>>]
    /\ pending' = [pending EXCEPT ![c] = TRUE]
    /\ log' = [log EXCEPT ![c] = Append2(@, Ev("handle", "ok", uowState[uow[c]], token[c]),
                                         Ev("commit", "call", uowState[uow[c]], "uow"))]
    /\ outcome' = [outcome EXCEPT ![c] = Returned(Success(v))]
    /\ pc' = [pc EXCEPT ![c] = "done"]
    /\ UNCHANGED <<mappings, booted, handlerMap, req, token, caught, uowState, persisted, uow,
                   handled>>

\* lines 47-49: handle returns v, commit is called.
HandleResolved(c, v) ==
    /\ pc[c] = "awaitHandle"
    /\ value' = [value EXCEPT ![c] = <<v>>]
    /\ pending' = [pending EXCEPT ![c] = TRUE]
    /\ log' = [log EXCEPT ![c] = Append2(@, Ev("handle", "ok", uowState[uow[c]], token[c]),
                                         Ev("commit", "call", uowState[uow[c]], "uow"))]
    /\ pc' = [pc EXCEPT ![c] = "awaitCommit"]
    /\ UNCHANGED <<mappings, booted, handlerMap, req, token, caught, outcome, uowState,
                   persisted, uow, handled>>

\* lines 47, 52-53: handle fails.
HandleRejected(c, e) ==
    /\ pc[c] = "awaitHandle"
    /\ pending' = [pending EXCEPT ![c] = TRUE]
    /\ EnterCatch(c, e, Append(log[c], Ev("handle", "fail", uowState[uow[c]], token[c])), uowState[uow[c]])
    /\ UNCHANGED <<mappings, booted, handlerMap, req, token, value, outcome, uowState,
                   persisted, uow, handled>>

\* A commit followed by an unconditional rollback (finally instead of catch).
CommitResolvedThenRollback(c) ==
    /\ pc[c] = "awaitCommit"
    /\ uowState' = [uowState EXCEPT ![uow[c]] = UowResolved(AwaitedOp(c), @)]
    /\ persisted' = StoreResolved(AwaitedOp(c), c, pending[c], persisted)
    /\ pending' = [pending EXCEPT ![c] = FALSE]
    /\ log' = [log EXCEPT ![c] =
                 Append2(@, Ev(AwaitedOp(c), "ok", UowResolved(AwaitedOp(c), uowState[uow[c]]), "uow"),
                         Ev("rollback", "call", UowResolved(AwaitedOp(c), uowState[uow[c]]), "uow"))]
    /\ outcome' = [outcome EXCEPT ![c] = Returned(Success(value[c][1]))]
    /\ pc' = [pc EXCEPT ![c] = "done"]
    /\ UNCHANGED <<mappings, booted, handlerMap, req, token, caught, value, uow, handled>>

\* lines 49-51: commit resolves, Success(value) is returned.
CommitResolved(c) ==
    /\ pc[c] = "awaitCommit"
    /\ uowState' = [uowState EXCEPT ![uow[c]] = UowResolved(AwaitedOp(c), @)]
    /\ persisted' = StoreResolved(AwaitedOp(c), c, pending[c], persisted)
    /\ pending' = [pending EXCEPT ![c] = FALSE]
    /\ log' = [log EXCEPT ![c] =
                 Append(@, Ev(AwaitedOp(c), "ok", UowResolved(AwaitedOp(c), uowState[uow[c]]), "uow"))]
    /\ outcome' = [outcome EXCEPT ![c] = Returned(Success(value[c][1]))]
    /\ pc' = [pc EXCEPT ![c] = "done"]
    /\ UNCHANGED <<mappings, booted, handlerMap, req, token, caught, value, uow, handled>>

\* lines 49, 52-53: commit rejects; nothing becomes durable.
CommitRejected(c, e, st) ==
    /\ pc[c] = "awaitCommit"
    /\ uowState' = [uowState EXCEPT ![uow[c]] = st]
    /\ pending' = [pending EXCEPT ![c] = @ /\ st = "Active"]
    /\ EnterCatch(c, e, Append(log[c], Ev(AwaitedOp(c), "fail", st, "uow")), st)
    /\ UNCHANGED <<mappings, booted, handlerMap, req, token, value, outcome, persisted,
                   uow, handled>>

\* lines 53-59: rollback resolves, the caught error is classified and returned.
RollbackResolved(c) ==
    /\ pc[c] = "awaitRollback"
    /\ uowState' = [uowState EXCEPT ![uow[c]] = UowResolved(AwaitedOp(c), @)]
    /\ persisted' = StoreResolved(AwaitedOp(c), c, pending[c], persisted)
    /\ pending' = [pending EXCEPT ![c] = FALSE]
    /\ log' = [log EXCEPT ![c] =
                 Append(@, Ev(AwaitedOp(c), "ok", UowResolved(AwaitedOp(c), uowState[uow[c]]), "uow"))]
    /\ outcome' = [outcome EXCEPT ![c] = Returned(Classify("command", caught[c]))]
    /\ pc' = [pc EXCEPT ![c] = "done"]
    /\ UNCHANGED <<mappings, booted, handlerMap, req, token, caught, value, uow, handled>>

\* line 53 rejects inside the catch block: the promise of execute rejects.
RollbackRejected(c, e) ==
    /\ pc[c] = "awaitRollback"
    /\ log' = [log EXCEPT ![c] = Append(@, Ev(AwaitedOp(c), "fail", uowState[uow[c]], "uow"))]
    /\ outcome' = [outcome EXCEPT ![c] = Rejected(e)]
    /\ pc' = [pc EXCEPT ![c] = "done"]
    /\ UNCHANGED <<mappings, booted, handlerMap, req, token, caught, value, uowState,
                   pending, persisted, uow, handled>>

(***************************************************************************)
(* QueryBus.execute                                                        *)
(***************************************************************************)
\* lines 81-84: no handler token for the query's class.
QueryNotFound(c, t) ==
    /\ pc[c] = "idle"
    /\ MapGet(handlerMap.query, t) = NoToken
    /\ req' = [req EXCEPT ![c] = [bus |-> "query", type |-> t]]
    /\ outcome' = [outcome EXCEPT ![c] = Returned(HandlerNotFound("query", t))]
    /\ pc' = [pc EXCEPT ![c] = "done"]
    /\ UNCHANGED <<mappings, booted, handlerMap, token, caught, value, log, uowState,
                   pending, persisted, uow, handled>>

\* A query bus that opens a transaction the way the command bus does.
QueryHandleBegins(c, t) ==
    /\ pc[c] = "idle"
    /\ MapGet(handlerMap.query, t) # NoToken
    /\ req' = [req EXCEPT ![c] = [bus |-> "query", type |-> t]]
    /\ token' = [token EXCEPT ![c] = MapGet(handlerMap.query, t)]
    /\ log' = [log EXCEPT ![c] =
                 Append3(Append(@, Ev("beginTransaction", "call", NoUow, "uow")),
                         Ev("resolve", "call", NoUow, MapGet(handlerMap.query, t)),
                         Ev("resolve", "ok", NoUow, MapGet(handlerMap.query, t)),
                         Ev("handle", "call", NoUow, MapGet(handlerMap.query, t)))]
    /\ pc' = [pc EXCEPT ![c] = "awaitQueryHandle"]
    /\ handled' = [handled EXCEPT ![c] = [bus |-> "query", type |-> t]]
    /\ UNCHANGED <<mappings, booted, handlerMap, caught, value, outcome, uowState, pending,
                   persisted, uow>>

\* lines 81-88: token found, handler resolved, handle called.
QueryHandle(c, t) ==
    /\ pc[c] = "idle"
    /\ MapGet(handlerMap.query, t) # NoToken
    /\ req' = [req EXCEPT ![c] = [bus |-> "query", type |-> t]]
    /\ token' = [token EXCEPT ![c] = MapGet(handlerMap.query, t)]
    /\ log' = [log EXCEPT ![c] =
                 Append3(@, Ev("resolve", "call", NoUow, MapGet(handlerMap.query, t)),
                         Ev("resolve", "ok", NoUow, MapGet(handlerMap.query, t)),
                         Ev("handle", "call", NoUow, MapGet(handlerMap.query, t)))]
    /\ pc' = [pc EXCEPT ![c] = "awaitQueryHandle"]
    /\ handled' = [handled EXCEPT ![c] = [bus |-> "query", type |-> t]]
    /\ UNCHANGED <<mappings, booted, handlerMap, caught, value, outcome, uowState, pending,
                   persisted, uow>>

\* lines 81-87, 90-95: token found, Container.get throws.
QueryResolveThrows(c, t, e) ==
    /\ pc[c] = "idle"
    /\ MapGet(handlerMap.query, t) # NoToken
    /\ req' = [req EXCEPT ![c] = [bus |-> "query", type |-> t]]
    /\ token' = [token EXCEPT ![c] = MapGet(handlerMap.query, t)]
    /\ log' = [log EXCEPT ![c] =
                 Append2(@, Ev("resolve", "call", NoUow, MapGet(handlerMap.query, t)),
                         Ev("resolve", "fail", NoUow, MapGet(handlerMap.query, t)))]
    /\ caught' = [caught EXCEPT ![c] = e]
    /\ outcome' = [outcome EXCEPT ![c] = Returned(Classify("query", e))]
    /\ pc' = [pc EXCEPT ![c] = "done"]
    /\ UNCHANGED <<mappings, booted, handlerMap, value, uowState, pending, persisted, uow,
                   handled>>

\* lines 88-89: handle returns v.
QueryHandleResolved(c, v) ==
    /\ pc[c] = "awaitQueryHandle"
    /\ value' = [value EXCEPT ![c] = <<v>>]
    /\ log' = [log EXCEPT ![c] = Append(@, Ev("handle", "ok", NoUow, token[c]))]
    /\ outcome' = [outcome EXCEPT ![c] = Returned(Success(v))]
    /\ pc' = [pc EXCEPT ![c] = "done"]
    /\ UNCHANGED <<mappings, booted, handlerMap, req, token, caught, uowState, pending,
                   persisted, uow, handled>>

\* lines 88, 90-95: handle fails.
QueryHandleRejected(c, e) ==
    /\ pc[c] = "awaitQueryHandle"
    /\ caught' = [caught EXCEPT ![c] = e]
    /\ log' = [log EXCEPT ![c] = Append(@, Ev("handle", "fail", NoUow, token[c]))]
    /\ outcome' = [outcome EXCEPT ![c] = Returned(Classify("query", e))]
    /\ pc' = [pc EXCEPT ![c] = "done"]
    /\ UNCHANGED <<mappings, booted, handlerMap, req, token, value, uowState, pending,
                   persisted, uow, handled>>

Next ==
    \/ \E c \in Calls, t \in CommandTypes : CommandNotFound(c, t)
    \/ \E c \in Calls, t \in CommandTypes : CommandBegin(c, t)
    \/ \E c \in Calls, e \in BeginErrors : BeginRejected(c, e)
    \/ \E c \in Calls : BeginResolved(c)
    \/ \E c \in Calls, e \in HandlerErrors : BeginResolvedResolveThrows(c, e)
    \/ \E c \in Calls, v \in Values : HandleResolved(c, v)
    \/ \E c \in Calls, e \in HandlerErrors : HandleRejected(c, e)
    \/ \E c \in Calls : CommitResolved(c)
    \/ \E c \in Calls, e \in CommitErrors, st \in UowAfterFailedCommit : CommitRejected(c, e, st)
    \/ \E c \in Calls : RollbackResolved(c)
    \/ \E c \in Calls, e \in RollbackErrors : RollbackRejected(c, e)
    \/ \E c \in Calls, t \in QueryTypes : QueryNotFound(c, t)
    \/ \E c \in Calls, t \in QueryTypes : QueryHandle(c, t)
    \/ \E c \in Calls, t \in QueryTypes, e \in HandlerErrors : QueryResolveThrows(c, t, e)
    \/ \E c \in Calls, v \in Values : QueryHandleResolved(c, v)
    \/ \E c \in Calls, e \in HandlerErrors : QueryHandleRejected(c, e)

Spec == Init /\ [][Next]_vars

(***************************************************************************)
(* Bootstrap: the buses start as the placeholders of lines 106-107 and are *)
(* then constructed with createHandlerMap(mappings).                       *)
(***************************************************************************)
InitBootstrap ==
    /\ mappings \in AllMappings
    /\ handlerMap = [command |-> createHandlerMap(<< >>), query |-> createHandlerMap(<< >>)]
    /\ booted = FALSE
    /\ InitCalls

BootstrapBuses ==
    /\ ~booted
    /\ handlerMap' = [command |-> createHandlerMap(mappings),
                      query |-> createHandlerMap(mappings)]
    /\ booted' = TRUE
    /\ UNCHANGED <<mappings, req, pc, token, caught, value, outcome, log, uowState, pending,
                   persisted, uow, handled>>

NextBootstrap == BootstrapBuses

SpecBootstrap == InitBootstrap /\ [][NextBootstrap]_vars

(***************************************************************************)
(* Properties                                                              *)
(***************************************************************************)
\* How often operation op occurs in phase ph in the log of call c.
Count(c, op, ph) ==
    Cardinality({i \in DOMAIN log[c] : log[c][i].op = op /\ log[c][i].ph = ph})

Called(c, op) == Count(c, op, "call")

Failed(c, op) == Count(c, op, "fail") > 0

Resolved(c, op) == Count(c, op, "ok") > 0

IsCommand(c) == req[c].bus = "command"

IsQuery(c) == req[c].bus = "query"

Done(c) == pc[c] = "done"

\* The command's class is registered, so the call went on to acquire a Unit of Work.
ReachedUow(c) == IsCommand(c) /\ req[c].type \in DOMAIN handlerMap.command

Unregistered(c) == req[c] # NoRequest /\ req[c].type \notin DOMAIN handlerMap[req[c].bus]

\* C1 as stated: in every finished command execution that reached the Unit of
\* Work, beginTransaction was called exactly once and exactly one of commit
\* and rollback was called, exactly once; never both.
C1_ExactlyOneOfCommitRollback ==
    \A c \in Calls :
        (ReachedUow(c) /\ Done(c)) =>
            /\ Called(c, "beginTransaction") = 1
            /\ Called(c, "commit") + Called(c, "rollback") = 1

\* C1 amended: beginTransaction is called exactly once; commit and rollback
\* are each called at most once and at least one of them is called; rollback
\* is called exactly when beginTransaction, handler resolution, handle or
\* commit failed, and both are called exactly when commit itself failed.
C1_CommitRollbackCounts ==
    \A c \in Calls :
        ReachedUow(c) =>
            /\ Called(c, "beginTransaction") = 1
            /\ Called(c, "commit") <= 1
            /\ Called(c, "rollback") <= 1
            /\ Called(c, "rollback") = 1 <=>
                   (\/ Failed(c, "beginTransaction") \/ Failed(c, "resolve")
                    \/ Failed(c, "handle") \/ Failed(c, "commit"))
            /\ (Called(c, "commit") = 1 /\ Called(c, "rollback") = 1) <=> Failed(c, "commit")
            /\ Done(c) => Called(c, "commit") + Called(c, "rollback") >= 1

\* A finished execution whose commit failed: commit and rollback were both called.
C1_Witness ==
    \E c \in Calls :
        /\ ReachedUow(c) /\ Done(c) /\ Failed(c, "commit")
        /\ Called(c, "commit") = 1 /\ Called(c, "rollback") = 1

C3_SuccessPath ==
    \A c \in Calls :
        (/\ ReachedUow(c) /\ Resolved(c, "beginTransaction") /\ Resolved(c, "resolve")
         /\ Resolved(c, "handle") /\ Resolved(c, "commit")) =>
            /\ Done(c)
            /\ outcome[c] = Returned(Success(value[c][1]))
            /\ Called(c, "beginTransaction") = 1
            /\ Called(c, "commit") = 1
            /\ Called(c, "rollback") = 0

\* Scenario A: the handler of a registered CreateUser command returned 42.
C3_Witness ==
    \E c \in Calls :
        /\ ReachedUow(c) /\ req[c].type = 1 /\ Resolved(c, "commit")
        /\ outcome[c] = Returned(Success(42))

\* The failure the catch block of call c caught came from handler resolution or handle.
HandlerLevelFailure(c) == Failed(c, "resolve") \/ Failed(c, "handle")

UowOps == {"beginTransaction", "commit", "rollback"}

\* C4: when handler resolution or handle (on the command bus also commit)
\* fails with an HttpError, execute returns a Failure carrying exactly that
\* error; on the command bus rollback has been called by then.
C4_HttpErrorPassesThrough ==
    \A c \in Calls :
        (/\ Done(c) /\ caught[c].cls = "HttpError"
         /\ (HandlerLevelFailure(c) \/ (IsCommand(c) /\ Failed(c, "commit")))) =>
            /\ outcome[c] = Returned(Failure(caught[c]))
            /\ IsCommand(c) => Called(c, "rollback") = 1

\* C5: when handler resolution or handle fails with an unclassified failure,
\* execute returns Failure(500, "Internal Server Error", detail), detail being
\* the failure's message, or on the command bus the fixed text when it has
\* none; after a handler failure on the command bus rollback was called once
\* and commit never.
C5_UnclassifiedWrappedAs500 ==
    \A c \in Calls :
        (Done(c) /\ caught[c].cls \in {"Error", "NonError"} /\ HandlerLevelFailure(c)) =>
            /\ outcome[c].kind = "returned"
            /\ outcome[c].result.success = FALSE
            /\ outcome[c].result.error.code = 500
            /\ outcome[c].result.error.title = "Internal Server Error"
            /\ caught[c].cls = "Error" => outcome[c].result.error.detail = caught[c].message
            /\ (caught[c].cls = "NonError" /\ IsCommand(c)) =>
                   outcome[c].result.error.detail = "An unknown command execution error occurred."
            /\ (IsCommand(c) /\ Failed(c, "handle")) =>
                   (Called(c, "rollback") = 1 /\ Called(c, "commit") = 0)

\* C6: a step of a query execution leaves every Unit of Work, every open
\* transaction and the durable writes as they were, and the query's log never
\* holds a beginTransaction, commit or rollback.
C6_QueryLeavesUnitOfWorkAlone ==
    [][\A c \in Calls :
          (req'[c].bus = "query" /\ pc'[c] # pc[c]) =>
              /\ uowState' = uowState
              /\ pending' = pending
              /\ persisted' = persisted
              /\ \A i \in DOMAIN log'[c] : log'[c][i].op \notin UowOps]_vars

\* A query has been answered by its handler while a command's transaction is open.
C6_Witness ==
    \E c, d \in Calls :
        /\ IsQuery(c) /\ Done(c) /\ Resolved(c, "handle")
        /\ IsCommand(d) /\ uowState[d] = "Active" /\ pending[d]

\* C7: after a failure of handler resolution, handle or commit, rollback is
\* called before execute returns, and execute returns the Failure classified
\* from that original failure.
C7_RollbackThenClassifiedFailure ==
    \A c \in Calls :
        (/\ IsCommand(c) /\ Done(c)
         /\ (HandlerLevelFailure(c) \/ Failed(c, "commit"))) =>
            /\ Called(c, "rollback") = 1
            /\ outcome[c] = Returned(Classify("command", caught[c]))

\* C8: an execute call in which handler resolution or handle fails settles by
\* returning a Result; it never rejects.
C8_HandlerFailureNeverRejects ==
    \A c \in Calls :
        (Done(c) /\ HandlerLevelFailure(c)) => outcome[c].kind = "returned"

\* C9: when rollback fails after an original failure, the caller still gets
\* the Failure classified from the original error and sees nothing of the
\* rollback's error.
C9_RollbackFailureNotReported ==
    \A c \in Calls :
        (IsCommand(c) /\ Done(c) /\ Failed(c, "rollback")) =>
            /\ outcome[c].kind = "returned"
            /\ outcome[c].result.success = FALSE
            /\ outcome[c].result.error \notin RollbackErrors

\* C10: the writes of a command's handler are durable if and only if commit
\* resolved in that execution; after an execution that returned a Failure
\* none of its writes are durable.
C10_DurableIffCommitted ==
    \A c \in Calls :
        /\ c \in persisted <=> Resolved(c, "commit")
        /\ (Done(c) /\ outcome[c].kind = "returned" /\ ~outcome[c].result.success) =>
               (c \notin persisted /\ ~pending[c])

\* One command committed its writes, another failed in its handler, after
\* writing, and was rolled back.
C10_Witness ==
    \E c, d \in Calls :
        /\ c \in persisted /\ Done(c) /\ outcome[c].kind = "returned" /\ outcome[c].result.success
        /\ Done(d) /\ Failed(d, "handle") /\ Resolved(d, "rollback") /\ d \notin persisted

\* C11: no step of an execute call changes the handlerMap of either bus, and
\* any two calls made on the same bus with a request of the same class get
\* the same token, however the calls interleave.
C11_RegistryReadOnly ==
    [][/\ handlerMap' = handlerMap
       /\ \A c, d \in Calls :
             (req'[c] # NoRequest /\ req'[c] = req'[d]) => token'[c] = token'[d]]_vars

\* Two calls for the same registered class are in flight together and hold
\* the same token.
C11_Witness ==
    \E c, d \in Calls :
        /\ c # d /\ req[c] = req[d] /\ token[c] # NoToken /\ token[c] = token[d]
        /\ pc[c] \notin {"idle", "done"} /\ pc[d] \notin {"idle", "done"}

\* C12: every Result an execute call returns is either a Success carrying a
\* value and no error, or a Failure carrying an error with code, title and
\* detail and no value.
C12_ResultIsOneVariant ==
    \A c \in Calls :
        outcome[c].kind = "returned" =>
            \/ /\ outcome[c].result.success = TRUE
               /\ DOMAIN outcome[c].result = {"success", "value"}
               /\ outcome[c].result.value \in Values
            \/ /\ outcome[c].result.success = FALSE
               /\ DOMAIN outcome[c].result = {"success", "error"}
               /\ outcome[c].result.error.cls = "HttpError"

\* One call returned a Success and another a Failure wrapped from a thrown
\* value that was not an HttpError.
C12_Witness ==
    \E c, d \in Calls :
        /\ outcome[c].kind = "returned" /\ outcome[c].result.success
        /\ outcome[d].kind = "returned" /\ ~outcome[d].result.success
        /\ caught[d].cls \in {"Error", "NonError"}

\* The positions in the log of call c at which op occurs in phase ph.
At(c, op, ph) == {i \in DOMAIN log[c] : log[c][i].op = op /\ log[c][i].ph = ph}

\* Every occurrence of (op2, ph2) in the log of c comes after one of (op1, ph1).
After(c, op1, ph1, op2, ph2) ==
    \A i \in At(c, op2, ph2) : \E j \in At(c, op1, ph1) : j < i

\* The order of the steps of one command execution, as far as it does not
\* depend on how many of commit and rollback are called.
StepsInOrder(c) ==
    /\ After(c, "beginTransaction", "ok", "resolve", "call")
    /\ After(c, "beginTransaction", "ok", "handle", "call")
    /\ After(c, "resolve", "ok", "handle", "call")
    /\ After(c, "handle", "ok", "commit", "call")
    /\ After(c, "beginTransaction", "call", "rollback", "call")
    /\ After(c, "handle", "call", "commit", "call")
    /\ \A op \in {"beginTransaction", "resolve", "handle", "commit", "rollback"} :
           Called(c, op) <= 1

\* C13 as stated: in one command execution the handler is resolved and
\* invoked only after beginTransaction succeeded, commit is called only after
\* handle returned, rollback never before beginTransaction was called, no
\* step is repeated, and the handler invocation is followed by exactly one of
\* commit and rollback.
C13_BeginHandleThenExactlyOne ==
    \A c \in Calls :
        ReachedUow(c) =>
            /\ StepsInOrder(c)
            /\ (Done(c) /\ Called(c, "handle") = 1) =>
                   Called(c, "commit") + Called(c, "rollback") = 1

\* C13 amended: the same order, and the handler invocation is followed by
\* commit when handle returned and by rollback when handle failed; exactly
\* one of the two follows it unless commit itself fails, and then rollback
\* is called after the failed commit.
C13_BeginHandleThenCommitOrRollback ==
    \A c \in Calls :
        ReachedUow(c) =>
            /\ StepsInOrder(c)
            /\ (Done(c) /\ Called(c, "handle") = 1) =>
                   /\ Called(c, "commit") + Called(c, "rollback") >= 1
                   /\ After(c, "handle", "call", "rollback", "call")
                   /\ Failed(c, "handle") => (Called(c, "commit") = 0 /\ Called(c, "rollback") = 1)
                   /\ Resolved(c, "handle") => Called(c, "commit") = 1
                   /\ (Called(c, "commit") + Called(c, "rollback") = 2) <=> Failed(c, "commit")
                   /\ Failed(c, "commit") => After(c, "commit", "fail", "rollback", "call")

\* A finished execution that went through every step: beginTransaction,
\* resolve, handle, a commit that failed, and rollback, in this order.
C13_Witness ==
    \E c \in Calls :
        /\ ReachedUow(c) /\ Done(c)
        /\ [i \in 1..Len(log[c]) |-> log[c][i].op] =
              <<"beginTransaction", "beginTransaction", "resolve", "resolve", "handle", "handle",
                "commit", "commit", "rollback", "rollback">>

\* C14: the bus calls beginTransaction only on an Idle Unit of Work and
\* commit or rollback only on an Active one, also in the executions in which
\* beginTransaction or commit fails.
C14_CallsOnlyFromValidState ==
    \A c \in Calls :
        ReachedUow(c) =>
            \A i \in DOMAIN log[c] :
                log[c][i].ph = "call" =>
                    /\ log[c][i].op = "beginTransaction" => log[c][i].st = "Idle"
                    /\ log[c][i].op \in {"commit", "rollback"} => log[c][i].st = "Active"

\* C15: when beginTransaction fails no handler is resolved or invoked, commit
\* is never called, and what the caller gets is the begin failure: execute
\* rejects with it or returns the Failure classified from it.
C15_BeginFailureReported ==
    \A c \in Calls :
        (ReachedUow(c) /\ Done(c) /\ Failed(c, "beginTransaction")) =>
            /\ Called(c, "resolve") = 0
            /\ Called(c, "handle") = 0
            /\ Called(c, "commit") = 0
            /\ caught[c] \in BeginErrors
            /\ \/ outcome[c] = Rejected(caught[c])
               \/ /\ outcome[c].kind = "returned"
                  /\ outcome[c].result.success = FALSE
                  /\ outcome[c].result.error.code = 500
                  /\ outcome[c].result.error.detail = caught[c].message

\* The command execution c has acquired its Unit of Work and has not settled.
InFlight(c) == IsCommand(c) /\ pc[c] \notin {"idle", "done"}

C17_UnregisteredCommandOpensNothing ==
    [][\A c \in Calls :
          (/\ req'[c].bus = "command"
           /\ req'[c].type \notin DOMAIN handlerMap'.command
           /\ pc'[c] # pc[c]) =>
              /\ pc'[c] = "done"
              /\ uow'[c] = 0
              /\ log'[c] = << >>
              /\ uowState' = uowState
              /\ pending' = pending
              /\ persisted' = persisted]_vars

\* An unregistered command has been answered while another command's
\* transaction is open with writes in it.
C17_Witness ==
    \E c, d \in Calls :
        /\ IsCommand(c) /\ Unregistered(c) /\ Done(c) /\ uow[c] = 0
        /\ InFlight(d) /\ uowState[uow[d]] = "Active" /\ pending[d]

\* C18: in a call whose request class is registered, the handler resolved and
\* invoked is the one bound to the token registered for that class; it is
\* resolved and invoked at most once, handle is given the request of the
\* call, and no other handler is touched.
C18_OnlyTheRegisteredHandler ==
    \A c \in Calls :
        (req[c] # NoRequest /\ req[c].type \in DOMAIN handlerMap[req[c].bus]) =>
            /\ \A i \in DOMAIN log[c] :
                   log[c][i].op \in {"resolve", "handle"} =>
                       log[c][i].arg = handlerMap[req[c].bus][req[c].type]
            /\ Called(c, "resolve") <= 1
            /\ Called(c, "handle") <= 1
            /\ handled[c] = IF Called(c, "handle") = 1 THEN req[c] ELSE NoRequest

\* A command and a query have both been handed to their handlers, which are
\* bound to different tokens.
C18_Witness ==
    \E c, d \in Calls :
        /\ IsCommand(c) /\ Called(c, "handle") = 1 /\ handled[c] = req[c]
        /\ IsQuery(d) /\ Called(d, "handle") = 1 /\ handled[d] = req[d]
        /\ token[c] # token[d]

\* The classes that occur in the bootstrap sequence.
MappedTypes == {mappings[i][1] : i \in DOMAIN mappings}

\* The token of the last pair of the bootstrap sequence for class t.
LastTokenFor(t) ==
    LET last == CHOOSE i \in DOMAIN mappings :
                    /\ mappings[i][1] = t
                    /\ \A j \in DOMAIN mappings : j > i => mappings[j][1] # t
    IN  mappings[last][2]

\* C19: the map built by createHandlerMap holds exactly the classes of the
\* bootstrap sequence, each with the token of its last pair, and a lookup of
\* any other class yields undefined.
C19_LastRegistrationWins ==
    booted =>
        \A bus \in {"command", "query"} :
            /\ DOMAIN handlerMap[bus] = MappedTypes
            /\ \A t \in MappedTypes :
                   /\ handlerMap[bus][t] = LastTokenFor(t)
                   /\ MapGet(handlerMap[bus], t) = LastTokenFor(t)
            /\ \A t \in RequestTypes \ MappedTypes : MapGet(handlerMap[bus], t) = NoToken

\* A class registered twice with different tokens, and a class not registered.
C19_Witness ==
    /\ booted
    /\ \E i, j \in DOMAIN mappings :
          /\ i < j /\ mappings[i][1] = mappings[j][1] /\ mappings[i][2] # mappings[j][2]
          /\ handlerMap.command[mappings[i][1]] = mappings[j][2]
    /\ RequestTypes \ MappedTypes # {}

\* C20: in a command execution rollback is never called once commit has
\* resolved; a Success is returned only when commit resolved and rollback
\* was never called; commit is never called when handler resolution or
\* handle failed.
C20_CommitAndRollbackExclusiveOnSuccess ==
    \A c \in Calls :
        IsCommand(c) =>
            /\ Resolved(c, "commit") => Called(c, "rollback") = 0
            /\ (outcome[c].kind = "returned" /\ outcome[c].result.success) =>
                   (Resolved(c, "commit") /\ Called(c, "rollback") = 0)
            /\ HandlerLevelFailure(c) => Called(c, "commit") = 0

\* One command returned a Success after its commit resolved; another failed
\* in its handler and was rolled back without commit being called.
C20_Witness ==
    \E c, d \in Calls :
        /\ IsCommand(c) /\ outcome[c].kind = "returned" /\ outcome[c].result.success
        /\ Resolved(c, "commit") /\ Called(c, "rollback") = 0
        /\ IsCommand(d) /\ Failed(d, "handle") /\ Called(d, "rollback") = 1
        /\ Called(d, "commit") = 0

====
